---- MODULE Spec2Model ----
(***************************************************************************)
(* Model of two React components of the InVEST workbench:                  *)
(*   LogTab   (src/src/renderer/components/LogTab/index.jsx)               *)
(*   ArgsForm (src/src/components/SetupTab/ArgsForm/index.jsx)             *)
(* Each component has its own specification (SpecLogTab, SpecArgsForm);    *)
(* the variables of the other component stay at their initial value.       *)
(***************************************************************************)
EXTENDS Integers, Sequences, FiniteSets, TLC

VARIABLES
    \* ---- LogTab ----
    mounted,      \* "constructed" | "mounted" | "unmounted"
    logfile,      \* this.props.logfile ("" when not supplied)
    jobStatus,    \* this.props.jobStatus ("none" when not supplied)
    logdata,      \* this.state.logdata: [null, text]
    tail,         \* this.tail: 0 (null) or an index into tails
    tails,        \* every Tail object constructed by the instance
    timers,       \* pending setTimeout callbacks, in firing order; each
                  \* remembers whether a finished run scheduled it and,
                  \* if so, whether this.tail was replaced since
    scheduled,    \* number of setTimeout calls made so far
    logged,       \* messages handed to logger.error
    staleSetState,\* a line listener called setState after unmount
    banner,       \* the status alert render() put into the portal
    \* ---- ArgsForm ----
    dragDepth,    \* this.dragDepth
    dragging,     \* formRef.current.classList contains "dragging"
    pyModuleName, \* this.props.pyModuleName
    drops,        \* the invocations of onArchiveDragDrop, in drop order
    alerts,       \* calls of alert(): [by, msg]
    parseCalls,   \* calls of fetchDatastackFromFile: [by, path]
    batchCalls,   \* calls of props.batchUpdateArgs: [by, args]
    updateCalls,  \* calls of props.updateArgValues: [by, dialog, name, value]
    dragEvents,   \* the drag and drop events handled since construction
    dialogs,      \* the invocations of selectFile, in click order
    inputDrops,   \* the drop events handled by inputDropHandler: [name, files]
    \* ---- markupLine ----
    rawLine,      \* the line last given to markupLine
    html          \* what markupLine returned for it

logVars == <<mounted, logfile, jobStatus, logdata, tail, tails, timers,
             scheduled, logged, staleSetState, banner>>

formVars == <<dragDepth, dragging, pyModuleName, drops, alerts, parseCalls,
              batchCalls, updateCalls, dragEvents, dialogs, inputDrops>>

markupVars == <<rawLine, html>>

vars == <<logVars, formVars, markupVars>>

----------------------------------------------------------------------------
(* Bounds *)
MaxTails == 2
MaxLines == 2
MaxTimers == 1
MaxDrops == 2
MaxEvents == 4
MaxLineLen == 3
MaxDialogs == 2

----------------------------------------------------------------------------
(* LogTab: constants and pure functions *)

NoFile == ""
Paths == {"a.log", "b.log"}
Statuses == {"none", "running", "success", "error"}

EOL == "\n"
LOG_TEXT_TAG == "span"
pyModuleNameLog == "carbon"

\* Text is a sequence of tokens; string concatenation is \o.
OpenTag(cls) == "<" \o LOG_TEXT_TAG \o " class=" \o cls \o ">"
CloseTag == "</" \o LOG_TEXT_TAG \o ">"

\* Tokens that are html tags; only LOG_TEXT_TAG (with class) is allowed.
OtherTags == {"<b>", "</b>"}

\* The raw lines a tail may deliver (without the line terminator).
RawLines ==
    { <<"INFO", "start">>,
      <<"ERROR", "carbon", "<b>", "failed">> }

WhiteSpace == {" ", EOL}
ErrorWords == {"Traceback", "ERROR", "ValueError"}

\* LOG_ERROR_REGEX.test(line)
LOG_ERROR_REGEX(line) ==
    \/ \E i \in DOMAIN line : line[i] \in ErrorWords
    \/ (line # <<>> /\ line[1] \in WhiteSpace)

\* new RegExp(this.props.pyModuleName).test(line)
ModuleRegex(line) == \E i \in DOMAIN line : line[i] = pyModuleNameLog

\* this.logPatterns, in insertion order
logPatterns == << "invest-log-error", "invest-log-primary" >>

PatternTest(cls, line) ==
    IF cls = "invest-log-error" THEN LOG_ERROR_REGEX(line) ELSE ModuleRegex(line)

\* sanitizeHtml(text, ALLOWED_HTML_OPTIONS): tags that are not allowed are
\* discarded, their text content is kept.
IsKept(tok) == tok \notin OtherTags
sanitizeHtml(text) == SelectSeq(text, IsKept)

\* The later pattern wins.
LastMatch(i, line) ==
    IF ModuleRegex(line) THEN 2 ELSE IF LOG_ERROR_REGEX(line) THEN 1 ELSE 0

RECURSIVE FirstMatch(_, _)
FirstMatch(i, line) ==
    IF i > Len(logPatterns) THEN 0
    ELSE IF PatternTest(logPatterns[i], line) THEN i
    ELSE FirstMatch(i + 1, line)

markupLine(line) ==
    LET m == FirstMatch(1, line)
    IN IF m = 0 THEN sanitizeHtml(line)
       ELSE sanitizeHtml(<<OpenTag(logPatterns[m])>> \o line \o <<CloseTag>>)

\* Lines to classify: every sequence of at most n of these tokens.
LineTokens == {"INFO", "ERROR", "carbon", "<b>", " "}

RECURSIVE LinesUpTo(_)
LinesUpTo(n) ==
    IF n = 0 THEN {<<>>}
    ELSE LinesUpTo(n - 1) \cup
         {Append(l, tok) : l \in LinesUpTo(n - 1), tok \in LineTokens}

\* Object.assign('', this.state.logdata) is a String object wrapping '';
\* "markup += ..." converts it to the primitive '', whatever logdata was.
InitialMarkup(ld) == <<>>

\* The 'line' listener: markup += markupLine(`${data}${os.EOL}`)
OnLineReplace(markup, data) == markupLine(data \o <<EOL>>)

OnLine(markup, data) == markup \o markupLine(data \o <<EOL>>)

NullLogdata == [null |-> TRUE, text |-> <<>>]
Published(text) == [null |-> FALSE, text |-> text]
MissingText(path) == <<"Logfile is missing: ", EOL, path>>

\* render(): the Open Workspace button, disabled while the job runs.
WorkspaceButton(status) == IF status = "running" THEN "disabled" ELSE "enabled"

NoBanner ==
    [variant |-> "none", content |-> <<>>, cancel |-> FALSE, workspace |-> "absent"]

\* render(): ModelStatusAlert as chosen by jobStatus.
ModelStatusAlertCancelAlways(status) ==
    IF status \in {"running", "error", "success"}
    THEN [variant |-> "secondary", content |-> <<>>, cancel |-> TRUE,
          workspace |-> "absent"]
    ELSE NoBanner

ModelStatusAlert(status) ==
    IF status = "running"
    THEN [variant |-> "secondary", content |-> <<>>, cancel |-> TRUE,
          workspace |-> "absent"]
    ELSE IF status = "error"
    THEN [variant |-> "danger", content |-> <<"finalTraceback">>,
          cancel |-> FALSE, workspace |-> WorkspaceButton(status)]
    ELSE IF status = "success"
    THEN [variant |-> "success", content |-> <<"Model Complete">>,
          cancel |-> FALSE, workspace |-> WorkspaceButton(status)]
    ELSE NoBanner

----------------------------------------------------------------------------
(* LogTab: state and operations *)

NewTail(path, ld) ==
    [filename |-> path, watching |-> TRUE, markup |-> InitialMarkup(ld),
     delivered |-> <<>>, unwatchCalls |-> 0]

\* tailLogfile(logfile): ok = the Tail constructor returned; otherwise it
\* threw and the catch block ran.  this.tail is overwritten without the
\* previous Tail being unwatched.
tailLogfileNoPlaceholder(path, ok) ==
    IF ok
    THEN /\ tails' = Append(tails, NewTail(path, logdata))
         /\ tail' = Len(tails) + 1
         /\ UNCHANGED <<logdata, logged>>
    ELSE /\ logged' = logged \cup {"Not able to read " \o path}
         /\ UNCHANGED <<tail, tails, logdata>>

tailLogfile(path, ok) ==
    IF ok
    THEN /\ tails' = Append(tails, NewTail(path, logdata))
         /\ tail' = Len(tails) + 1
         /\ UNCHANGED <<logdata, logged>>
    ELSE /\ logdata' = Published(MissingText(path))
         /\ logged' = logged \cup {"Not able to read " \o path}
         /\ UNCHANGED <<tail, tails>>

\* unwatchLogfile(): tail.unwatch() closes the watcher; this.tail is kept.
unwatchLogfile(tl, ptr) ==
    IF ptr # 0
    THEN [tl EXCEPT ![ptr].watching = FALSE,
                    ![ptr].unwatchCalls = @ + 1]
    ELSE tl

RECURSIVE TotalDelivered(_)
TotalDelivered(tl) ==
    IF tl = <<>> THEN 0
    ELSE Len(Head(tl).delivered) + TotalDelivered(Tail(tl))

\* The timers pending when tailLogfile replaced this.tail: their callback
\* reads this.tail when it fires, not when it was scheduled.  Only the
\* timers of a finished run are marked.
Outlived(tm) ==
    [k \in DOMAIN tm |-> [tm[k] EXCEPT !.retailed = tm[k].runEnded]]

\* The status change running -> success or running -> error.
RunEnded(prev, next) == prev = "running" /\ next \in {"success", "error"}

componentDidMount ==
    /\ UNCHANGED <<formVars, markupVars>>
    /\ mounted = "constructed"
    /\ mounted' = "mounted"
    /\ IF logfile # NoFile
       THEN \E ok \in BOOLEAN : tailLogfile(logfile, ok)
       ELSE UNCHANGED <<tail, tails, logdata, logged>>
    /\ UNCHANGED <<logfile, jobStatus, timers, scheduled, staleSetState, banner>>

\* The parent re-renders with new props, then componentDidUpdate(prevProps).
componentDidUpdate ==
    /\ UNCHANGED <<formVars, markupVars>>
    /\ mounted = "mounted"
    /\ \E newFile \in Paths \cup {NoFile}, newStatus \in Statuses :
        LET retail == newFile # NoFile /\ logfile # newFile
            sched == newStatus # "running" /\ jobStatus # newStatus
        IN /\ retail => Len(tails) < MaxTails
           /\ sched => scheduled < MaxTimers
           /\ logfile' = newFile
           /\ jobStatus' = newStatus
           /\ banner' = ModelStatusAlert(newStatus)
           /\ IF retail
              THEN \E ok \in BOOLEAN : tailLogfile(newFile, ok)
              ELSE UNCHANGED <<tail, tails, logdata, logged>>
           /\ LET pending == IF tail' # tail THEN Outlived(timers) ELSE timers
              IN IF sched
                 THEN /\ timers' = Append(pending,
                                [runEnded |-> RunEnded(jobStatus, newStatus),
                                 retailed |-> FALSE])
                      /\ scheduled' = scheduled + 1
                 ELSE /\ timers' = pending
                      /\ UNCHANGED scheduled
    /\ UNCHANGED <<mounted, staleSetState>>

\* setTimeout(() => this.unwatchLogfile(), 3000) fires; nothing cancels it,
\* so it also fires after unmount.
TimerFires ==
    /\ UNCHANGED <<formVars, markupVars>>
    /\ timers # <<>>
    /\ timers' = Tail(timers)
    /\ tails' = unwatchLogfile(tails, tail)
    /\ UNCHANGED <<mounted, logfile, jobStatus, logdata, tail, scheduled,
                   logged, staleSetState, banner>>

componentWillUnmount ==
    /\ UNCHANGED <<formVars, markupVars>>
    /\ mounted = "mounted"
    /\ mounted' = "unmounted"
    /\ tails' = unwatchLogfile(tails, tail)
    /\ banner' = NoBanner
    /\ UNCHANGED <<logfile, jobStatus, logdata, tail, timers, scheduled,
                   logged, staleSetState>>

\* A watching Tail emits 'line'.  setState on an unmounted component is
\* ignored by React; on a mounted one it is followed by render().
TailLine ==
    /\ UNCHANGED <<formVars, markupVars>>
    /\ \E t \in DOMAIN tails, data \in RawLines :
        /\ tails[t].watching
        /\ TotalDelivered(tails) < MaxLines
        /\ LET m == OnLine(tails[t].markup, data)
           IN /\ tails' = [tails EXCEPT ![t].markup = m,
                                        ![t].delivered = Append(@, data)]
              /\ IF mounted = "mounted"
                 THEN /\ logdata' = Published(m)
                      /\ banner' = ModelStatusAlert(jobStatus)
                      /\ UNCHANGED staleSetState
                 ELSE /\ staleSetState' = TRUE
                      /\ UNCHANGED <<logdata, banner>>
        /\ UNCHANGED <<mounted, logfile, jobStatus, tail, timers, scheduled, logged>>

LogNext ==
    \/ componentDidMount
    \/ componentDidUpdate
    \/ TimerFires
    \/ componentWillUnmount
    \/ TailLine

----------------------------------------------------------------------------
(* ArgsForm: datastack files and pure functions *)

Modules == {"carbon", "sdr"}

\* Files a user may drop.  fetchDatastackFromFile resolves to the file's
\* datastack; for a file that is no datastack it fails.
Files == {"carbon.json", "carbon_b.json", "sdr.json", "notes.txt"}
Unparsable == {"notes.txt"}

Datastack(f) ==
    IF f = "carbon.json" THEN [module_name |-> "carbon", args |-> "argsA"]
    ELSE IF f = "carbon_b.json" THEN [module_name |-> "carbon", args |-> "argsB"]
    ELSE [module_name |-> "sdr", args |-> "argsC"]

\* event.dataTransfer.files of a drop
FileLists ==
    {<<>>} \cup {<<f>> : f \in Files} \cup {<<"carbon.json", "sdr.json">>}

ArgKeys == {"workspace_dir"}

\* event.dataTransfer.files of a drop on one input
InputFileLists == { <<>>, <<"dem.tif">>, <<"lulc.tif", "dem.tif">> }

OneFileMsg == <<"only drop one file at a time.">>
MismatchMsg(fileModule, formModule) ==
    <<"Parameter/Log file for ", fileModule,
      " does not match this model: ", formModule>>

\* fileList.length !== 1 rejects the drop
AcceptsFirstOfMany(files) == Len(files) >= 1

AcceptsFileList(files) == Len(files) = 1

\* datastack.module_name === this.props.pyModuleName
MatchesAnyModule(fileModule, formModule) == TRUE

ModuleMatches(fileModule, formModule) == fileModule = formModule

\* classList after dragLeaveHandler
LeaveAlwaysRemoves(depth, cls) == FALSE

ClassAfterLeave(depth, cls) == IF depth <= 0 THEN FALSE ELSE cls

\* The browse buttons: event.target.name and event.target.value (the
\* declared type of the field).
BrowseKeys == {"workspace_dir", "dem_path"}
FieldTypes == {"directory", "file", "csv"}

\* data.filePaths of a closed dialog; empty when it was cancelled.
DialogResults ==
    { <<>>, <<"/data/dem.tif">>, <<"/data/out", "/data/dem.tif">> }

\* (value === 'directory') ? 'openDirectory' : 'openFile'
DialogPropertyFileOnly(type) == "openFile"

DialogProperty(type) == IF type = "directory" THEN "openDirectory" ELSE "openFile"

----------------------------------------------------------------------------
(* ArgsForm: state and operations *)

dragEnterHandler ==
    /\ UNCHANGED <<logVars, markupVars, dialogs, inputDrops>>
    /\ Len(dragEvents) < MaxEvents
    /\ dragDepth' = dragDepth + 1
    /\ dragging' = TRUE
    /\ dragEvents' = Append(dragEvents, "enter")
    /\ UNCHANGED <<pyModuleName, drops, alerts, parseCalls, batchCalls, updateCalls>>

dragLeaveHandler ==
    /\ UNCHANGED <<logVars, markupVars, dialogs, inputDrops>>
    /\ Len(dragEvents) < MaxEvents
    /\ dragDepth' = dragDepth - 1
    /\ dragging' = ClassAfterLeave(dragDepth - 1, dragging)
    /\ dragEvents' = Append(dragEvents, "leave")
    /\ UNCHANGED <<pyModuleName, drops, alerts, parseCalls, batchCalls, updateCalls>>

\* onArchiveDragDrop up to its await (or its throw).
onArchiveDragDrop ==
    /\ UNCHANGED <<logVars, markupVars, dialogs, inputDrops>>
    /\ Len(dragEvents) < MaxEvents
    /\ Len(drops) < MaxDrops
    /\ \E files \in FileLists :
        LET i == Len(drops) + 1
        IN /\ dragDepth' = 0
           /\ dragging' = FALSE
           /\ IF AcceptsFileList(files)
              THEN /\ parseCalls' = Append(parseCalls, [by |-> i, path |-> files[1]])
                   /\ drops' = Append(drops, [files |-> files, pc |-> "await",
                                               against |-> "none"])
                   /\ UNCHANGED alerts
              ELSE /\ alerts' = Append(alerts, [by |-> i, msg |-> OneFileMsg])
                   /\ drops' = Append(drops, [files |-> files, pc |-> "thrown",
                                               against |-> "none"])
                   /\ UNCHANGED parseCalls
    /\ dragEvents' = Append(dragEvents, "drop")
    /\ UNCHANGED <<pyModuleName, batchCalls, updateCalls>>

\* onArchiveDragDrop after its await: the parse of drop i settled.  Pending
\* parses settle in any order.
DatastackSettles ==
    /\ UNCHANGED <<logVars, markupVars, dialogs, inputDrops>>
    /\ \E i \in DOMAIN drops :
        /\ drops[i].pc = "await"
        /\ LET f == drops[i].files[1]
           IN IF f \in Unparsable
              THEN /\ drops' = [drops EXCEPT ![i].pc = "thrown"]
                   /\ UNCHANGED <<alerts, batchCalls>>
              ELSE IF ModuleMatches(Datastack(f).module_name, pyModuleName)
              THEN /\ batchCalls' = Append(batchCalls,
                                           [by |-> i, args |-> Datastack(f).args])
                   /\ drops' = [drops EXCEPT ![i].pc = "done",
                                             ![i].against = pyModuleName]
                   /\ UNCHANGED alerts
              ELSE /\ alerts' = Append(alerts,
                          [by |-> i,
                           msg |-> MismatchMsg(Datastack(f).module_name, pyModuleName)])
                   /\ drops' = [drops EXCEPT ![i].pc = "thrown",
                                             ![i].against = pyModuleName]
                   /\ UNCHANGED batchCalls
    /\ UNCHANGED <<dragDepth, dragging, pyModuleName, parseCalls, updateCalls,
                   dragEvents>>

\* The updateArgValues calls of a drop on the input named name.
InputDropCallsSingleOnly(name, files) ==
    IF Len(files) = 1
    THEN <<[by |-> 0, dialog |-> 0, name |-> name, value |-> files[1]]>>
    ELSE <<>>

InputDropCalls(name, files) ==
    IF Len(files) > 0
    THEN <<[by |-> 0, dialog |-> 0, name |-> name, value |-> files[1]]>>
    ELSE <<>>

\* A drop on one input: the event does not reach the form's handlers.
inputDropHandler ==
    /\ UNCHANGED <<logVars, markupVars, dialogs>>
    /\ Len(dragEvents) < MaxEvents
    /\ \E name \in ArgKeys, files \in InputFileLists :
        /\ updateCalls' = updateCalls \o InputDropCalls(name, files)
        /\ inputDrops' = Append(inputDrops, [name |-> name, files |-> files])
    /\ dragEvents' = Append(dragEvents, "inputdrop")
    /\ UNCHANGED <<dragDepth, dragging, pyModuleName, drops, alerts, parseCalls,
                   batchCalls>>

\* The parent shows the form of another model.
ModelChanges ==
    /\ UNCHANGED <<logVars, markupVars, dialogs, inputDrops>>
    /\ \E m \in Modules \ {pyModuleName} : pyModuleName' = m
    /\ UNCHANGED <<dragDepth, dragging, drops, alerts, parseCalls, batchCalls,
                   updateCalls, dragEvents>>

FormNext ==
    \/ dragEnterHandler
    \/ dragLeaveHandler
    \/ onArchiveDragDrop
    \/ DatastackSettles
    \/ inputDropHandler
    \/ ModelChanges

----------------------------------------------------------------------------
(* LogTab: properties *)

ActiveTails == {t \in DOMAIN tails : tails[t].watching}

\* The buffer the lines of one tail should give: every line, in arrival
\* order, terminated, classified and sanitized on its own.
RECURSIVE Render(_)
Render(lines) ==
    IF lines = <<>> THEN <<>>
    ELSE markupLine(Head(lines) \o <<EOL>>) \o Render(Tail(lines))

\* C1: at most one tail created by the instance is active at any time; a
\* change of the logfile prop leaves only the tail of the new path active.
C1_AtMostOneActiveTail == Cardinality(ActiveTails) <= 1

\* C2: when the timer scheduled by a status change running -> success or
\* running -> error fires, no tail of the instance is active afterwards.
C2_NoTailAfterTeardown ==
    [][ (timers # <<>> /\ timers' = Tail(timers) /\ Head(timers).runEnded)
            => (\A t \in DOMAIN tails' : ~tails'[t].watching) ]_vars

\* C3: after a line event of a tail, the published logdata holds every line
\* that tail has delivered, in arrival order, each wrapped by the classifier
\* and terminated, none dropped or duplicated.
C3_AllLinesPublished ==
    [][ \A t \in DOMAIN tails :
            (mounted = "mounted" /\ tails'[t].delivered # tails[t].delivered)
                => logdata' = Published(Render(tails'[t].delivered)) ]_vars

C3_Witness ==
    \E t \in DOMAIN tails :
        /\ mounted = "mounted"
        /\ Len(tails[t].delivered) = 2
        /\ tails[t].delivered[1] # tails[t].delivered[2]
        /\ logdata = Published(Render(tails[t].delivered))

\* C4: after componentWillUnmount no tail created by the instance is active
\* and no line event publishes state any more.
C4_UnmountTearsDown ==
    mounted = "unmounted" => (ActiveTails = {} /\ ~staleSetState)

\* C5: the watch of a tail is released at most once, however many times
\* teardown is requested (timer, second status change, unmount).
C5_ReleasedAtMostOnce == \A t \in DOMAIN tails : tails[t].unwatchCalls <= 1

\* A step of mount or update that called tailLogfile.
TailAttempted ==
    \/ (mounted = "constructed" /\ mounted' = "mounted" /\ logfile # NoFile)
    \/ (mounted = "mounted" /\ mounted' = "mounted"
            /\ logfile' # NoFile /\ logfile' # logfile)

\* C11: when establishing the tail fails, logdata becomes the 'Logfile is
\* missing' placeholder naming the path, the failure is logged, and mount
\* and update run to their end (a due teardown timer is still scheduled).
C11_MissingLogfileRecovered ==
    [][ (TailAttempted /\ Len(tails') = Len(tails))
            => /\ logdata' = Published(MissingText(logfile'))
               /\ ("Not able to read " \o logfile') \in logged'
               /\ mounted' = "mounted"
               /\ tail' = tail
               /\ (jobStatus' # "running" /\ jobStatus' # jobStatus)
                      => Len(timers') = Len(timers) + 1 ]_vars

C11_Witness ==
    /\ mounted = "mounted"
    /\ logfile # NoFile
    /\ logdata = Published(MissingText(logfile))
    /\ ("Not able to read " \o logfile) \in logged
    /\ timers # <<>>

\* C12: the status banner is a function of jobStatus alone: 'running'
\* shows only Cancel, 'error' the final traceback and Open Workspace,
\* 'success' the completion message and Open Workspace, anything else no
\* banner; Cancel is offered only while running and Open Workspace is
\* never offered enabled while running.
C12_BannerFollowsStatus ==
    mounted # "unmounted" =>
        /\ jobStatus = "running"
              => (banner.cancel /\ banner.workspace = "absent" /\ banner.content = <<>>)
        /\ jobStatus = "error"
              => (~banner.cancel /\ banner.workspace = "enabled"
                    /\ banner.content = <<"finalTraceback">>)
        /\ jobStatus = "success"
              => (~banner.cancel /\ banner.workspace = "enabled"
                    /\ banner.content = <<"Model Complete">>)
        /\ jobStatus \notin {"running", "error", "success"} => banner = NoBanner
        /\ banner.cancel => jobStatus = "running"
        /\ jobStatus = "running" => banner.workspace # "enabled"

C12_Witness ==
    /\ mounted = "mounted"
    /\ jobStatus = "error"
    /\ banner.workspace = "enabled"
    /\ tails # <<>>

\* C13: an update schedules the delayed teardown exactly when jobStatus
\* went from 'running' to another value, and never tears down at the
\* status change itself.
C13_TeardownOnlyAfterRunning ==
    [][ (mounted = "mounted" /\ mounted' = "mounted")
            => /\ (Len(timers') > Len(timers))
                      <=> (jobStatus = "running" /\ jobStatus' # "running")
               /\ jobStatus' # jobStatus
                      => \A t \in DOMAIN tails : tails'[t].watching = tails[t].watching
      ]_vars

\* C14: within a run the published buffer is append-only: a line event of
\* the current tail of the current logfile, which has published before,
\* publishes the previously published logdata extended by exactly the new
\* line.
C14_AppendOnly ==
    [][ (mounted = "mounted" /\ tail # 0 /\ logfile' = logfile
            /\ tails[tail].filename = logfile
            /\ tails[tail].delivered # <<>>
            /\ Len(tails'[tail].delivered) = Len(tails[tail].delivered) + 1)
          => /\ ~logdata.null
             /\ logdata'.text =
                    logdata.text \o
                    markupLine(tails'[tail].delivered[Len(tails'[tail].delivered)]
                                 \o <<EOL>>) ]_vars

\* C18: when the teardown timer of a finished run fires after a new tail
\* was started for the current logfile and jobStatus is 'running' again,
\* the new run's tail is still watching afterwards.
C18_PendingTimerSparesNewTail ==
    [][ ( /\ timers # <<>>
          /\ timers' = Tail(timers)
          /\ Head(timers).runEnded
          /\ Head(timers).retailed
          /\ mounted = "mounted"
          /\ jobStatus = "running"
          /\ tail # 0
          /\ tails[tail].filename = logfile
          /\ tails[tail].watching )
        => tails'[tail].watching ]_vars

\* C19: once the logfile prop names another path, a line event of a tail
\* of a previous log file leaves the published logdata unchanged.
C19_OldTailSilent ==
    [][ \A t \in DOMAIN tails :
            ( /\ mounted = "mounted"
              /\ logfile # NoFile
              /\ tails[t].filename # logfile
              /\ tails'[t].delivered # tails[t].delivered )
            => logdata' = logdata ]_vars

ClassTags == {OpenTag(logPatterns[k]) : k \in DOMAIN logPatterns}
ClassTagsIn(text) == {k \in DOMAIN text : text[k] \in ClassTags}

\* C15: markupLine gives a line at most one class, that of the first
\* matching pattern in the order (error, primary module): a line matching
\* both gets the error class only, a line matching neither gets no wrapper.

C15_FirstPatternWins ==
    /\ Cardinality(ClassTagsIn(html)) <= 1
    /\ LOG_ERROR_REGEX(rawLine)
          => (ClassTagsIn(html) = {1} /\ html[1] = OpenTag("invest-log-error"))
    /\ (~LOG_ERROR_REGEX(rawLine) /\ ModuleRegex(rawLine))
          => (ClassTagsIn(html) = {1} /\ html[1] = OpenTag("invest-log-primary"))
    /\ (~LOG_ERROR_REGEX(rawLine) /\ ~ModuleRegex(rawLine))
          => (ClassTagsIn(html) = {} /\ \A k \in DOMAIN html : html[k] # CloseTag)

C15_Witness ==
    /\ rawLine = <<"INFO", "carbon", "ERROR">>
    /\ html[1] = OpenTag("invest-log-error")

----------------------------------------------------------------------------
(* ArgsForm: properties *)

CallsBy(calls, i) == {k \in DOMAIN calls : calls[k].by = i}

Settled(i) == drops[i].pc # "await"

\* C6: a drop of one datastack file whose module_name equals pyModuleName
\* calls batchUpdateArgs exactly once, with the file's args; one whose
\* module_name differs raises one alert naming both modules and calls
\* neither batchUpdateArgs nor updateArgValues.
C6_SingleDatastackDrop ==
    \A i \in DOMAIN drops :
        (Settled(i) /\ Len(drops[i].files) = 1 /\ drops[i].files[1] \notin Unparsable)
            => LET ds == Datastack(drops[i].files[1])
               IN IF ds.module_name = drops[i].against
                  THEN /\ Cardinality(CallsBy(batchCalls, i)) = 1
                       /\ \A k \in CallsBy(batchCalls, i) : batchCalls[k].args = ds.args
                       /\ CallsBy(alerts, i) = {}
                  ELSE /\ Cardinality(CallsBy(alerts, i)) = 1
                       /\ \A k \in CallsBy(alerts, i) :
                            alerts[k].msg = MismatchMsg(ds.module_name, drops[i].against)
                       /\ drops[i].against \in Modules
                       /\ CallsBy(batchCalls, i) = {}
                       /\ CallsBy(updateCalls, i) = {}

C6_Witness ==
    \E i, j \in DOMAIN drops :
        /\ drops[i].pc = "done" /\ CallsBy(batchCalls, i) # {}
        /\ drops[j].pc = "thrown" /\ Len(drops[j].files) = 1
        /\ drops[j].files[1] \notin Unparsable
        /\ CallsBy(alerts, j) # {}

\* C7: a drop of more than one file raises an alert, never invokes the
\* datastack parser and calls neither batchUpdateArgs nor updateArgValues.
C7_MultiFileDrop ==
    \A i \in DOMAIN drops :
        Len(drops[i].files) > 1
            => /\ drops[i].pc = "thrown"
               /\ Cardinality(CallsBy(alerts, i)) = 1
               /\ \A k \in CallsBy(alerts, i) : alerts[k].msg = OneFileMsg
               /\ CallsBy(parseCalls, i) = {}
               /\ CallsBy(batchCalls, i) = {}
               /\ CallsBy(updateCalls, i) = {}

C7_Witness ==
    \E i \in DOMAIN drops :
        Len(drops[i].files) = 2 /\ drops[i].pc = "thrown" /\ CallsBy(alerts, i) # {}

\* C8: when the parser fails on the dropped file, the drop handler raises a
\* user-visible alert and does not call batchUpdateArgs.
C8_ParseFailureAlerts ==
    \A i \in DOMAIN drops :
        (Settled(i) /\ Len(drops[i].files) = 1 /\ drops[i].files[1] \in Unparsable)
            => (CallsBy(alerts, i) # {} /\ CallsBy(batchCalls, i) = {})

\* C9: the "dragging" indicator is present exactly while the drag-depth
\* counter is positive.
C9_DraggingIffDepthPositive == dragging <=> (dragDepth > 0)

\* C10: from a fresh form, enter, enter, leave leaves the indicator active
\* with depth 1; a further leave removes it; a drop on the form, at any
\* point, removes it.
C10_NestedDrag ==
    /\ dragEvents = <<"enter", "enter", "leave">> => (dragging /\ dragDepth = 1)
    /\ dragEvents = <<"enter", "enter", "leave", "leave">> => ~dragging
    /\ (dragEvents # <<>> /\ dragEvents[Len(dragEvents)] = "drop") => ~dragging

C10_Witness ==
    /\ Len(dragEvents) = 4
    /\ SubSeq(dragEvents, 1, 3) = <<"enter", "enter", "leave">>
    /\ dragEvents[4] \in {"leave", "drop"}
    /\ ~dragging

----------------------------------------------------------------------------
\* LogTab, constructed with any props, next to an untouched form.
InitLogTab ==
    /\ mounted = "constructed"
    /\ logfile \in Paths \cup {NoFile}
    /\ jobStatus \in Statuses
    /\ logdata = NullLogdata
    /\ tail = 0
    /\ tails = <<>>
    /\ timers = <<>>
    /\ scheduled = 0
    /\ logged = {}
    /\ staleSetState = FALSE
    /\ banner = ModelStatusAlert(jobStatus)
    /\ dragDepth = 0
    /\ dragging = FALSE
    /\ pyModuleName = "carbon"
    /\ drops = <<>>
    /\ alerts = <<>>
    /\ parseCalls = <<>>
    /\ batchCalls = <<>>
    /\ updateCalls = <<>>
    /\ dragEvents = <<>>
    /\ dialogs = <<>>
    /\ inputDrops = <<>>
    /\ rawLine = <<>>
    /\ html = <<>>

SpecLogTab == InitLogTab /\ [][LogNext]_vars

\* ArgsForm next to a LogTab that was constructed without props.
InitArgsForm ==
    /\ mounted = "constructed"
    /\ logfile = NoFile
    /\ jobStatus = "none"
    /\ logdata = NullLogdata
    /\ tail = 0
    /\ tails = <<>>
    /\ timers = <<>>
    /\ scheduled = 0
    /\ logged = {}
    /\ staleSetState = FALSE
    /\ banner = ModelStatusAlert(jobStatus)
    /\ dragDepth = 0
    /\ dragging = FALSE
    /\ pyModuleName = "carbon"
    /\ drops = <<>>
    /\ alerts = <<>>
    /\ parseCalls = <<>>
    /\ batchCalls = <<>>
    /\ updateCalls = <<>>
    /\ dragEvents = <<>>
    /\ dialogs = <<>>
    /\ inputDrops = <<>>
    /\ rawLine = <<>>
    /\ html = <<>>

SpecArgsForm == InitArgsForm /\ [][FormNext]_vars

CallsOfDialog(d) == {k \in DOMAIN updateCalls : updateCalls[k].dialog = d}

\* C16: selectFile opens a directory dialog for a field of type
\* 'directory' and a file dialog otherwise; a cancelled dialog calls
\* nothing; a dialog closed with a selection calls updateArgValues exactly
\* once, with the field's key and the first selected path.
C16_SelectFile ==
    \A d \in DOMAIN dialogs :
        /\ dialogs[d].prop =
              (IF dialogs[d].type = "directory" THEN "openDirectory" ELSE "openFile")
        /\ dialogs[d].pc = "open" => CallsOfDialog(d) = {}
        /\ (dialogs[d].pc = "closed" /\ dialogs[d].filePaths = <<>>)
              => CallsOfDialog(d) = {}
        /\ (dialogs[d].pc = "closed" /\ dialogs[d].filePaths # <<>>)
              => /\ Cardinality(CallsOfDialog(d)) = 1
                 /\ \A k \in CallsOfDialog(d) :
                      /\ updateCalls[k].name = dialogs[d].name
                      /\ updateCalls[k].value = dialogs[d].filePaths[1]

C16_Witness ==
    \E d, e \in DOMAIN dialogs :
        /\ dialogs[d].type = "directory" /\ dialogs[d].pc = "closed"
        /\ Len(dialogs[d].filePaths) = 2 /\ CallsOfDialog(d) # {}
        /\ dialogs[e].type = "csv" /\ dialogs[e].pc = "closed"
        /\ dialogs[e].filePaths = <<>>

\* C17: a drop on one input calls updateArgValues exactly once, with the
\* input's key and the path of the first dropped file, however many files
\* were dropped; a drop without files calls nothing; the form's drop
\* handler does not run: no batchUpdateArgs call, no alert, no parse, and
\* the drag depth and the indicator stay as they were.
C17_InputDrop ==
    [][ Len(inputDrops') = Len(inputDrops) + 1
          => LET e == inputDrops'[Len(inputDrops')]
             IN /\ IF e.files = <<>>
                   THEN updateCalls' = updateCalls
                   ELSE /\ Len(updateCalls') = Len(updateCalls) + 1
                        /\ SubSeq(updateCalls', 1, Len(updateCalls)) = updateCalls
                        /\ updateCalls'[Len(updateCalls')].name = e.name
                        /\ updateCalls'[Len(updateCalls')].value = e.files[1]
                /\ batchCalls' = batchCalls
                /\ drops' = drops
                /\ alerts' = alerts
                /\ parseCalls' = parseCalls
                /\ dragDepth' = dragDepth
                /\ dragging' = dragging ]_vars

C17_Witness ==
    /\ inputDrops # <<>>
    /\ Len(inputDrops[Len(inputDrops)].files) = 2
    /\ dragEvents[Len(dragEvents)] = "inputdrop"
    /\ updateCalls # <<>>
    /\ updateCalls[Len(updateCalls)].value = inputDrops[Len(inputDrops)].files[1]
    /\ dragDepth = 2
    /\ dragging

\* C20: the batchUpdateArgs calls of successive datastack drops are made in
\* drop order, so once every parse has settled the last call carries the
\* arguments of the last drop that passed its check; and a drop passes its
\* check exactly against the pyModuleName the form had when the check ran.
C20_BatchInDropOrder ==
    /\ \A k1, k2 \in DOMAIN batchCalls :
            k1 < k2 => batchCalls[k1].by < batchCalls[k2].by
    /\ \A i \in DOMAIN drops :
            drops[i].pc = "done"
                => Datastack(drops[i].files[1]).module_name = drops[i].against

----------------------------------------------------------------------------
(* ArgsForm: the browse buttons *)

\* selectFile up to its await: the dialog is opened.
selectFile ==
    /\ UNCHANGED <<logVars, markupVars, inputDrops>>
    /\ Len(dialogs) < MaxDialogs
    /\ \E name \in BrowseKeys, type \in FieldTypes :
        dialogs' = Append(dialogs,
                          [name |-> name, type |-> type,
                           prop |-> DialogProperty(type),
                           pc |-> "open", filePaths |-> <<>>])
    /\ UNCHANGED <<dragDepth, dragging, pyModuleName, drops, alerts, parseCalls,
                   batchCalls, updateCalls, dragEvents>>

\* selectFile after its await: the user closed dialog d.
DialogCloses ==
    /\ UNCHANGED <<logVars, markupVars, inputDrops>>
    /\ \E d \in DOMAIN dialogs, paths \in DialogResults :
        /\ dialogs[d].pc = "open"
        /\ dialogs' = [dialogs EXCEPT ![d].pc = "closed", ![d].filePaths = paths]
        /\ IF Len(paths) > 0
           THEN updateCalls' = Append(updateCalls,
                                      [by |-> 0, dialog |-> d,
                                       name |-> dialogs[d].name,
                                       value |-> paths[1]])
           ELSE UNCHANGED updateCalls
    /\ UNCHANGED <<dragDepth, dragging, pyModuleName, drops, alerts, parseCalls,
                   batchCalls, dragEvents>>

BrowseNext ==
    \/ selectFile
    \/ DialogCloses

InitSelectFile ==
    /\ mounted = "constructed"
    /\ logfile = NoFile
    /\ jobStatus = "none"
    /\ logdata = NullLogdata
    /\ tail = 0
    /\ tails = <<>>
    /\ timers = <<>>
    /\ scheduled = 0
    /\ logged = {}
    /\ staleSetState = FALSE
    /\ banner = ModelStatusAlert(jobStatus)
    /\ dragDepth = 0
    /\ dragging = FALSE
    /\ pyModuleName = "carbon"
    /\ drops = <<>>
    /\ alerts = <<>>
    /\ parseCalls = <<>>
    /\ batchCalls = <<>>
    /\ updateCalls = <<>>
    /\ dragEvents = <<>>
    /\ dialogs = <<>>
    /\ inputDrops = <<>>
    /\ rawLine = <<>>
    /\ html = <<>>

SpecSelectFile == InitSelectFile /\ [][BrowseNext]_vars

----------------------------------------------------------------------------
(* markupLine on its own *)

\* markupLine(line, this.logPatterns) for any line.
markupLineCalled ==
    /\ UNCHANGED <<logVars, formVars>>
    /\ \E line \in LinesUpTo(MaxLineLen) :
        /\ rawLine' = line
        /\ html' = markupLine(line)

InitMarkupLine ==
    /\ mounted = "constructed"
    /\ logfile = NoFile
    /\ jobStatus = "none"
    /\ logdata = NullLogdata
    /\ tail = 0
    /\ tails = <<>>
    /\ timers = <<>>
    /\ scheduled = 0
    /\ logged = {}
    /\ staleSetState = FALSE
    /\ banner = ModelStatusAlert(jobStatus)
    /\ dragDepth = 0
    /\ dragging = FALSE
    /\ pyModuleName = "carbon"
    /\ drops = <<>>
    /\ alerts = <<>>
    /\ parseCalls = <<>>
    /\ batchCalls = <<>>
    /\ updateCalls = <<>>
    /\ dragEvents = <<>>
    /\ dialogs = <<>>
    /\ inputDrops = <<>>
    /\ rawLine = <<>>
    /\ html = <<>>

MarkupNext == markupLineCalled

SpecMarkupLine == InitMarkupLine /\ [][MarkupNext]_vars

====
